---- MODULE Spec2Model ----
(***************************************************************************)
(* Budget-period accounting of the expense tracker client                  *)
(* (app/(tabs)/ocr.tsx and app/(tabs)/index.tsx) over a shared Firestore   *)
(* document store.                                                         *)
(*                                                                         *)
(* Time: an instant is a whole number of hours since 1970-01-01T00:00Z     *)
(* (Date.getTime() / 3600000).  A device's local time is the instant plus  *)
(* a fixed zone offset in hours (no daylight-saving shifts).               *)
(* Text: a string is a sequence of one-character strings, so that          *)
(* formatting (toString, padStart, template literals, toISOString, split)  *)
(* is computed character by character.                                     *)
(* Money: amounts are whole currency units.                                *)
(***************************************************************************)
EXTENDS Integers, Sequences, FiniteSets, TLC

VARIABLES
    tz,          \* zone offset (hours) of the devices' local calendar
    d1, d2,      \* two instants at which getCurrentPeriod is evaluated
    kind,        \* the period kind evaluated at d1 and d2 ("" before evaluation)
    k1, k2,      \* the keys getCurrentPeriod returned at d1 and d2
    now,         \* the wall clock (new Date(), serverTimestamp())
    env,         \* the devices that run the app, the accounts that exist and
                 \* the values the users enter in the forms
    auth,        \* auth().currentUser of each device
    budgets,     \* the store's budgets collection; a document's id is its index
    expenses,    \* the store's expenses collection
    op,          \* the saveExpense invocation of each device's receipt screen
    home,        \* the state of each device's Home screen
    reqs,        \* the POST /extract-text requests of the relay and their callers
    files,       \* the uploads/ directory of the relay: the requests whose file is stored
    categories,  \* the store's categories collection (ids of its documents)
    lists,       \* the category list of each screen and what its last load found
    layout       \* the root layout's state, the route and what is on screen

vars == <<tz, d1, d2, kind, k1, k2, now, env, auth, budgets, expenses, op, home,
          reqs, files, categories, lists, layout>>

periodVars == <<tz, d1, d2, kind, k1, k2>>
appVars == <<now, env, auth, budgets, expenses, op, home>>
relayVars == <<reqs, files>>
screenVars == <<categories, lists, layout>>

----------------------------------------------------------------------------
(* Bounds and input domains.                                               *)

\* zone offsets explored (hours east of UTC)
TimeZones == {-8, 0, 8}

\* the devices and the accounts
Clients == {1, 2}
Users == {"u1", "u2"}
NoUser == "none"

\* the store holds at most MaxBudgets budget documents and MaxExpenses expenses
MaxBudgets == 2
MaxExpenses == 2

\* the wall clock advances at most MaxTicks times, 8 hours at a time
MaxTicks == 2

BudgetTypes == {"daily", "weekly", "monthly"}

----------------------------------------------------------------------------
(* JavaScript Date, on a proleptic Gregorian calendar.                      *)

\* the civil date of a day number (days since 1970-01-01)
CivilFromDays(days) ==
    LET z == days + 719468
        era == z \div 146097
        doe == z - era * 146097
        yoe == (doe - doe \div 1460 + doe \div 36524 - doe \div 146096) \div 365
        doy == doe - (365 * yoe + yoe \div 4 - yoe \div 100)
        mp == (5 * doy + 2) \div 153
        d == doy - (153 * mp + 2) \div 5 + 1
        m == IF mp < 10 THEN mp + 3 ELSE mp - 9
        y == yoe + era * 400 + (IF m <= 2 THEN 1 ELSE 0)
    IN  [year |-> y, month |-> m, day |-> d]

\* the day number of a civil date
DaysFromCivil(y, m, d) ==
    LET yy == IF m <= 2 THEN y - 1 ELSE y
        era == yy \div 400
        yoe == yy - era * 400
        doy == (153 * (IF m > 2 THEN m - 3 ELSE m + 9) + 2) \div 5 + d - 1
        doe == yoe * 365 + yoe \div 4 - yoe \div 100 + doy
    IN  era * 146097 + doe - 719468

\* local wall-clock hour count of instant t in zone z
LocalHours(t, z) == t + z

\* Date.prototype.getFullYear / getMonth (0-based) / getDate, local time
getFullYear(t, z) == CivilFromDays(LocalHours(t, z) \div 24).year
getMonth(t, z) == CivilFromDays(LocalHours(t, z) \div 24).month - 1
getDate(t, z) == CivilFromDays(LocalHours(t, z) \div 24).day

\* new Date(year, 0, 1): the instant of local midnight on January 1
StartOfYear(y, z) == DaysFromCivil(y, 1, 1) * 24 - z

\* Date.prototype.getDay (0 = Sunday), local time; 1970-01-01 was a Thursday
getDay(t, z) == ((LocalHours(t, z) \div 24) + 4) % 7

----------------------------------------------------------------------------
(* JavaScript string formatting.                                           *)

DigitChar(n) == <<"0", "1", "2", "3", "4", "5", "6", "7", "8", "9">>[n + 1]

\* Number.prototype.toString of a non-negative integer
RECURSIVE ToStr(_)
ToStr(n) == IF n < 10 THEN <<DigitChar(n)>>
            ELSE ToStr(n \div 10) \o <<DigitChar(n % 10)>>

\* String.prototype.padStart(len, ch)
RECURSIVE padStart(_, _, _)
padStart(s, len, ch) == IF Len(s) >= len THEN s ELSE padStart(<<ch>> \o s, len, ch)

\* Date.prototype.toISOString: UTC, "YYYY-MM-DDTHH:00:00.000Z"
toISOString(t) ==
    LET c == CivilFromDays(t \div 24)
    IN  padStart(ToStr(c.year), 4, "0") \o <<"-">> \o padStart(ToStr(c.month), 2, "0")
        \o <<"-">> \o padStart(ToStr(c.day), 2, "0") \o <<"T">>
        \o padStart(ToStr(t % 24), 2, "0")
        \o <<":", "0", "0", ":", "0", "0", ".", "0", "0", "0", "Z">>

\* s.split(sep)[0]: the part of s before the first occurrence of sep
RECURSIVE SplitFirst(_, _)
SplitFirst(s, sep) ==
    IF s = <<>> \/ Head(s) = sep THEN <<>>
    ELSE <<Head(s)>> \o SplitFirst(Tail(s), sep)

\* String.prototype.trim, for blanks
RECURSIVE trimStart(_)
trimStart(s) == IF s # <<>> /\ Head(s) = " " THEN trimStart(Tail(s)) ELSE s

RECURSIVE trimEnd(_)
trimEnd(s) ==
    IF s # <<>> /\ s[Len(s)] = " " THEN trimEnd(SubSeq(s, 1, Len(s) - 1)) ELSE s

trim(s) == trimEnd(trimStart(s))

\* Math.ceil(a / b) for a >= 0, b > 0
Ceil(a, b) == (a + b - 1) \div b

----------------------------------------------------------------------------
(* getCurrentPeriod: the period key of a budget kind at instant t.         *)

\* getCurrentPeriod whose monthly key leaves out the year
getCurrentPeriod_monthOnly(type, t, z) ==
    IF type = "monthly"
    THEN padStart(ToStr(getMonth(t, z) + 1), 2, "0")
    ELSE SplitFirst(toISOString(t), "T")

\* getCurrentPeriod whose week number ignores the weekday of January 1
getCurrentPeriod_weeksFromJan1(type, t, z) ==
    CASE type = "daily" -> SplitFirst(toISOString(t), "T")
      [] type = "weekly" ->
            LET startOfYear == StartOfYear(getFullYear(t, z), z)
                days == (t - startOfYear) \div 24
                weekNumber == Ceil(days + 1, 7)
            IN  ToStr(getFullYear(t, z)) \o <<"-", "W">>
                \o padStart(ToStr(weekNumber), 2, "0")
      [] type = "monthly" ->
            ToStr(getFullYear(t, z)) \o <<"-">>
            \o padStart(ToStr(getMonth(t, z) + 1), 2, "0")
      [] OTHER -> <<>>

getCurrentPeriod(type, t, z) ==
    CASE type = "daily" -> SplitFirst(toISOString(t), "T")
      [] type = "weekly" ->
            LET startOfYear == StartOfYear(getFullYear(t, z), z)
                days == (t - startOfYear) \div 24
                weekNumber == Ceil(days + getDay(startOfYear, z) + 1, 7)
            IN  ToStr(getFullYear(t, z)) \o <<"-", "W">>
                \o padStart(ToStr(weekNumber), 2, "0")
      [] type = "monthly" ->
            ToStr(getFullYear(t, z)) \o <<"-">>
            \o padStart(ToStr(getMonth(t, z) + 1), 2, "0")
      [] OTHER -> <<>>

\* a Home screen copy whose daily key is the date of the device's calendar
getCurrentPeriodHome_localDaily(type, t, z) ==
    CASE type = "daily" ->
            ToStr(getFullYear(t, z)) \o <<"-">>
            \o padStart(ToStr(getMonth(t, z) + 1), 2, "0") \o <<"-">>
            \o padStart(ToStr(getDate(t, z)), 2, "0")
      [] type = "weekly" ->
            LET startOfYear == StartOfYear(getFullYear(t, z), z)
                days == (t - startOfYear) \div 24
                weekNumber == Ceil(days + getDay(startOfYear, z) + 1, 7)
            IN  ToStr(getFullYear(t, z)) \o <<"-", "W">>
                \o padStart(ToStr(weekNumber), 2, "0")
      [] type = "monthly" ->
            ToStr(getFullYear(t, z)) \o <<"-">>
            \o padStart(ToStr(getMonth(t, z) + 1), 2, "0")
      [] OTHER -> <<>>

\* the copy of getCurrentPeriod in the Home screen (index.tsx)
getCurrentPeriodHome(type, t, z) ==
    CASE type = "daily" -> SplitFirst(toISOString(t), "T")
      [] type = "weekly" ->
            LET startOfYear == StartOfYear(getFullYear(t, z), z)
                days == (t - startOfYear) \div 24
                weekNumber == Ceil(days + getDay(startOfYear, z) + 1, 7)
            IN  ToStr(getFullYear(t, z)) \o <<"-", "W">>
                \o padStart(ToStr(weekNumber), 2, "0")
      [] type = "monthly" ->
            ToStr(getFullYear(t, z)) \o <<"-">>
            \o padStart(ToStr(getMonth(t, z) + 1), 2, "0")
      [] OTHER -> <<>>

----------------------------------------------------------------------------
(* Evaluating the period key at two instants.                              *)

\* first and last instant of the window: 2023-12-01T00:00Z .. 2025-01-31T16:00Z
WindowStart == DaysFromCivil(2023, 12, 1) * 24
WindowEnd == DaysFromCivil(2025, 1, 31) * 24 + 16

\* instants of the window, every 8 hours
Instants == {t \in WindowStart..WindowEnd : t % 8 = 0}

\* instants on the first, the middle or the last UTC day of a month
Anchors == {t \in Instants :
              \/ CivilFromDays(t \div 24).day \in {1, 15}
              \/ CivilFromDays(t \div 24 + 1).day = 1}

\* instants within two UTC days of a month boundary, or mid-month
NearBoundary == {t \in Instants :
                   \/ CivilFromDays(t \div 24).day \in {1, 2, 15}
                   \/ CivilFromDays(t \div 24 + 1).day = 1
                   \/ CivilFromDays(t \div 24 + 2).day = 1}

\* the overspending threshold used when the user's preferences hold none
DefaultOverspendingLimit == 1000

\* a query result or a write batch without documents
NoDocs == [d \in {} |-> 0]

\* the receipt screen with no saveExpense in flight
IdleOp ==
    [pc |-> "idle", uid |-> NoUser, updateUid |-> NoUser, category |-> "", amount |-> 0,
     expenseId |-> 0, outcome |-> "", snap |-> NoDocs, batch |-> NoDocs,
     alert |-> "", pending |-> {}, alertUid |-> NoUser, evaluated |-> FALSE,
     signals |-> {}, monthlyTotal |-> -1, overspending |-> {},
     merchantName |-> <<>>]

\* the requests the relay serves at the same time
Requests == {1, 2}

\* the screens that keep a category list: receipt, Home, History
Screens == {"ocr", "home", "history"}

\* const defaultCategories: the ids of the eight hardcoded categories
defaultCategories ==
    {"food-dining", "transportation", "shopping", "entertainment",
     "bills-utilities", "healthcare", "groceries", "other"}

\* a screen when it is mounted: useState(defaultCategories), nothing loaded
FirstList == [categories |-> defaultCategories, found |-> "nothing yet"]

\* the root layout when it is mounted: fonts not loaded, useState(null),
\* useState(true); the app opens on the tabs route behind the splash view
FirstLayout ==
    [loaded |-> FALSE, initializing |-> TRUE, user |-> NoUser,
     currentUser |-> NoUser, route |-> "(tabs)", shown |-> "splash"]

\* a response of the relay; status 0: none sent
NoAnalysis == [kind |-> "absent", keys |-> {}, nulls |-> {}]
NoResponse ==
    [status |-> 0, success |-> FALSE, error |-> "", extractedText |-> "",
     analysis |-> NoAnalysis]

\* no upload
NoFile == [mimetype |-> "", size |-> 0]

\* a request that has not been made
NoRequest ==
    [pc |-> "none", file |-> NoFile, ocr |-> "idle", text |-> "", llm |-> "",
     cause |-> "", response |-> NoResponse, client |-> "none", loading |-> FALSE,
     waited |-> 0, timer |-> "none", responses |-> 0]

\* the Home screen before any auth state event
EmptyHome == [user |-> NoUser, budgets |-> {}, loads |-> {}]

InitPeriod ==
    /\ tz \in TimeZones
    /\ d1 \in Anchors
    /\ d2 \in NearBoundary
    /\ kind = ""
    /\ k1 = <<>>
    /\ k2 = <<>>
    /\ now = 0
    /\ env = [devices |-> {}, home |-> {}, signing |-> {}, users |-> {},
              categories |-> {}, types |-> {}, budgetAmounts |-> {},
              expenseAmounts |-> {}, overspendingLimit |-> DefaultOverspendingLimit]
    /\ auth = [c \in Clients |-> NoUser]
    /\ budgets = <<>>
    /\ expenses = <<>>
    /\ op = [c \in Clients |-> IdleOp]
    /\ home = [c \in Clients |-> EmptyHome]
    /\ reqs = [r \in Requests |-> NoRequest]
    /\ files = {}
    /\ categories = {}
    /\ lists = [s \in Screens |-> FirstList]
    /\ layout = FirstLayout

\* getCurrentPeriod(type) called with the clock at d1 and again at d2
EvalPeriod(type) ==
    /\ kind = ""
    /\ kind' = type
    /\ k1' = getCurrentPeriod(type, d1, tz)
    /\ k2' = getCurrentPeriod(type, d2, tz)
    /\ UNCHANGED <<tz, d1, d2>>
    /\ UNCHANGED <<appVars, relayVars, screenVars>>

NextPeriod == \E type \in BudgetTypes : EvalPeriod(type)

SpecPeriod == InitPeriod /\ [][NextPeriod]_vars

----------------------------------------------------------------------------
(* The document store and the receipt screen (ocr.tsx).                    *)

\* the wall clock at the start: 2024-08-31T08:00Z, a Saturday afternoon in
\* zone +8; eight hours later the local week and month roll over, sixteen
\* hours later the UTC date does
ClockStart == DaysFromCivil(2024, 8, 31) * 24 + 8

\* the zone of the devices in the accounting model
DeviceZones == {8}

\* one device on which one account signs in and out and uses the Home screen
\* and the receipt screen; the store starts empty
AppEnv ==
    [devices |-> {1}, home |-> {1}, signing |-> {1}, users |-> {"u1"},
     categories |-> {"food-dining"},
     types |-> {"monthly"},
     budgetAmounts |-> {22},
     expenseAmounts |-> {20},
     overspendingLimit |-> 44]

\* two devices signed in to the same account, both on the receipt screen
RaceEnv ==
    [devices |-> {1, 2}, home |-> {}, signing |-> {}, users |-> {"u1"},
     categories |-> {"food-dining"},
     types |-> {"daily", "monthly"},
     budgetAmounts |-> {22},
     expenseAmounts |-> {10, 20},
     overspendingLimit |-> DefaultOverspendingLimit]

\* a budget of u1 for food-dining that saveBudget created at instant t
BudgetCreatedAt(budgetType, budgetAmount, t, z) ==
    [userId |-> "u1", category |-> "food-dining", budgetType |-> budgetType,
     budgetAmount |-> budgetAmount,
     currentPeriod |-> getCurrentPeriod(budgetType, t, z),
     currentSpent |-> 0, isActive |-> TRUE]

\* one device, signed in, on the receipt screen
ScenarioEnv ==
    [devices |-> {1}, home |-> {}, signing |-> {}, users |-> {"u1"},
     categories |-> {"food-dining"},
     types |-> {},
     budgetAmounts |-> {},
     expenseAmounts |-> {10, 20},
     overspendingLimit |-> DefaultOverspendingLimit]

\* the budgets in the store when the two devices start: a monthly budget of
\* this month, alone or next to a daily budget last touched 40 days earlier
RaceStores(z) ==
    {<<BudgetCreatedAt("monthly", 22, ClockStart, z)>>,
     <<BudgetCreatedAt("daily", 22, ClockStart - 24 * 40, z),
       BudgetCreatedAt("monthly", 22, ClockStart, z)>>}

\* collection('budgets').where(userId).where(category).where(isActive == true)
ActiveBudgetsOf(uid, category) ==
    {d \in DOMAIN budgets : /\ budgets[d].userId = uid
                             /\ budgets[d].category = category
                             /\ budgets[d].isActive}

\* updateFields that adds to the stale total when the period has changed
updateFields_addOnReset(budget, amount, t, z) ==
    LET currentPeriod == getCurrentPeriod(budget.budgetType, t, z)
    IN  [reset |-> budget.currentPeriod # currentPeriod,
         currentPeriod |-> currentPeriod,
         currentSpent |-> budget.currentSpent + amount]

\* updateFields that overwrites the total within the period
updateFields_overwrite(budget, amount, t, z) ==
    LET currentPeriod == getCurrentPeriod(budget.budgetType, t, z)
    IN  [reset |-> budget.currentPeriod # currentPeriod,
         currentPeriod |-> currentPeriod,
         currentSpent |-> amount]

\* the forEach body of updateBudgetSpending: the update batched for one budget
updateFields(budget, amount, t, z) ==
    LET currentPeriod == getCurrentPeriod(budget.budgetType, t, z)
    IN  IF budget.currentPeriod # currentPeriod
        THEN [reset |-> TRUE, currentPeriod |-> currentPeriod,
              currentSpent |-> amount]
        ELSE [reset |-> FALSE, currentPeriod |-> currentPeriod,
              currentSpent |-> budget.currentSpent + amount]

\* batch.update(doc.ref, fields) applied to the stored document
ApplyUpdate(budget, u) ==
    IF u.reset
    THEN [budget EXCEPT !.currentPeriod = u.currentPeriod,
                        !.currentSpent = u.currentSpent]
    ELSE [budget EXCEPT !.currentSpent = u.currentSpent]

\* a commit that writes the budgets one by one and stops after the first
CommitBatch_firstOnly(store, batch) ==
    [d \in DOMAIN store |->
        IF d \in DOMAIN batch /\ \A x \in DOMAIN batch : d <= x
        THEN ApplyUpdate(store[d], batch[d]) ELSE store[d]]

\* batch.commit(): every update of the batch is applied, as one write
CommitBatch(store, batch) ==
    [d \in DOMAIN store |->
        IF d \in DOMAIN batch THEN ApplyUpdate(store[d], batch[d]) ELSE store[d]]

\* AlertLevel with two independent ifs: an exceeded budget also warns
AlertLevel_bothSignals(budget, t, z) ==
    IF budget.currentPeriod = getCurrentPeriod(budget.budgetType, t, z)
    THEN (IF budget.currentSpent * 100 >= 100 * budget.budgetAmount
          THEN {"exceeded"} ELSE {})
         \cup (IF budget.currentSpent * 100 >= 90 * budget.budgetAmount
               THEN {"warning"} ELSE {})
    ELSE {}

\* AlertLevel that warns only above 95%
AlertLevel_warnAbove95(budget, t, z) ==
    IF budget.currentPeriod = getCurrentPeriod(budget.budgetType, t, z)
    THEN IF budget.currentSpent * 100 >= 100 * budget.budgetAmount THEN {"exceeded"}
         ELSE IF budget.currentSpent * 100 > 95 * budget.budgetAmount THEN {"warning"}
         ELSE {}
    ELSE {}

\* the Alert checkBudgetAlerts raises for one budget it read
AlertLevel(budget, t, z) ==
    IF budget.currentPeriod = getCurrentPeriod(budget.budgetType, t, z)
    THEN IF budget.currentSpent * 100 >= 100 * budget.budgetAmount THEN {"exceeded"}
         ELSE IF budget.currentSpent * 100 >= 90 * budget.budgetAmount THEN {"warning"}
         ELSE {}
    ELSE {}

\* new Date(year, month, 1): local midnight on the first day of a month (0-based)
StartOfMonth(y, m, z) ==
    DaysFromCivil(y + m \div 12, (m % 12) + 1, 1) * 24 - z

\* the expenses query of checkOverspendingAlert: createdAt >= startOfMonth and
\* createdAt <= endOfMonth (the last day of the month, 23:59:59), whole hours
InMonthRange(createdAt, t, z) ==
    LET startOfMonth == StartOfMonth(getFullYear(t, z), getMonth(t, z), z)
        endOfMonth == StartOfMonth(getFullYear(t, z), getMonth(t, z) + 1, z) - 1
    IN  startOfMonth <= createdAt /\ createdAt <= endOfMonth

RECURSIVE SumAmounts(_, _)
SumAmounts(docs, ids) ==
    IF ids = {} THEN 0
    ELSE LET d == CHOOSE x \in ids : TRUE
         IN  docs[d].amount + SumAmounts(docs, ids \ {d})

\* the Alert checkOverspendingAlert raises for the total it formed
overspendingAlert(total, overspendingLimit) ==
    IF total >= overspendingLimit THEN {"exceeded"} ELSE {}

\* totalMonthlySpent of checkOverspendingAlert
totalMonthlySpent(uid, amount, t, z) ==
    SumAmounts(expenses, {e \in DOMAIN expenses :
                            /\ expenses[e].userId = uid
                            /\ InMonthRange(expenses[e].createdAt, t, z)})
    + amount

\* loadBudgets(): reads auth().currentUser and starts the query
StartLoad(c, h) ==
    IF auth[c] = NoUser THEN h ELSE [h EXCEPT !.loads = @ \cup {auth[c]}]

\* the app starts on one device over an empty store
\* what the Home screen's budget list shows for a budget it holds: the amount
\* spent, the progress percentage and the "Budget exceeded!" banner
budgetCard(budget) ==
    [spent |-> budget.currentSpent,
     progressPercentage |-> (budget.currentSpent * 100) \div budget.budgetAmount,
     exceeded |-> budget.currentSpent * 100 >= budget.budgetAmount * 100]

InitApp ==
    /\ env = AppEnv
    /\ auth = [c \in Clients |-> NoUser]
    /\ budgets = <<>>
    /\ expenses = <<>>

\* two devices are signed in to one account that has budgets
InitRace ==
    /\ env = RaceEnv
    /\ auth = [c \in Clients |-> "u1"]
    /\ budgets \in RaceStores(tz)
    /\ expenses = <<>>

\* a monthly budget of 100 with 85 spent this month, by an expense of the
\* day before
InitScenario ==
    /\ env = ScenarioEnv
    /\ auth = [c \in Clients |-> IF c = 1 THEN "u1" ELSE NoUser]
    /\ budgets = <<[BudgetCreatedAt("monthly", 100, ClockStart, tz)
                        EXCEPT !.currentSpent = 85]>>
    /\ expenses = <<[userId |-> "u1", amount |-> 85,
                     merchantName |-> <<"K", "F", "C">>,
                     createdAt |-> ClockStart - 24]>>

Init ==
    /\ tz \in DeviceZones
    /\ d1 = 0
    /\ d2 = 0
    /\ kind = ""
    /\ k1 = <<>>
    /\ k2 = <<>>
    /\ now = ClockStart
    /\ op = [c \in Clients |-> IdleOp]
    /\ home = [c \in Clients |-> EmptyHome]
    /\ reqs = [r \in Requests |-> NoRequest]
    /\ files = {}
    /\ categories = {}
    /\ lists = [s \in Screens |-> FirstList]
    /\ layout = FirstLayout
    /\ (InitApp \/ InitRace \/ InitScenario)

\* the wall clock advances
Tick ==
    /\ now < ClockStart + 8 * MaxTicks
    /\ now' = now + 8
    /\ UNCHANGED <<env, auth, budgets, expenses, op, home>>
    /\ UNCHANGED <<periodVars, relayVars, screenVars>>

\* signInWithCredential succeeds; the Home screen's onAuthStateChanged listener
\* resets its state and calls loadUserData
SignIn(c, u) ==
    /\ c \in env.signing
    /\ auth[c] = NoUser
    /\ auth' = [auth EXCEPT ![c] = u]
    /\ home' = IF c \in env.home
               THEN [home EXCEPT ![c] = [user |-> u, budgets |-> {},
                                         loads |-> home[c].loads \cup {u}]]
               ELSE home
    /\ UNCHANGED <<now, env, budgets, expenses, op>>
    /\ UNCHANGED <<periodVars, relayVars, screenVars>>

\* firebaseAuth.signOut(); the Home screen's listener clears its state
SignOut(c) ==
    /\ c \in env.signing
    /\ auth[c] # NoUser
    /\ auth' = [auth EXCEPT ![c] = NoUser]
    /\ home' = IF c \in env.home
               THEN [home EXCEPT ![c] = [user |-> NoUser, budgets |-> {},
                                         loads |-> home[c].loads]]
               ELSE home
    /\ UNCHANGED <<now, env, budgets, expenses, op>>
    /\ UNCHANGED <<periodVars, relayVars, screenVars>>

\* saveExpense without a signed-in user: an Alert and nothing else
SaveExpenseNoUser(c) ==
    /\ c \in env.devices
    /\ op[c].pc = "idle"
    /\ auth[c] = NoUser
    /\ op' = [op EXCEPT ![c] = [IdleOp EXCEPT !.pc = "done", !.alert = "notLoggedIn"]]
    /\ UNCHANGED <<now, env, auth, budgets, expenses, home>>
    /\ UNCHANGED <<periodVars, relayVars, screenVars>>

\* amounts and merchant names the form can hold besides the valid amounts
InvalidAmounts == {0 - 5, 0}
MerchantNames == {<<>>, <<" ", " ">>, <<"K", "F", "C">>, <<" ", "K", "F", "C", " ">>}

\* a form check that accepts any merchant name
formError_anyMerchant(amount, merchantName) ==
    IF amount <= 0 THEN "invalidAmount" ELSE ""

\* the form checks of saveExpense: the Alert shown, "" when the form passes
formError(amount, merchantName) ==
    IF amount <= 0 THEN "invalidAmount"
    ELSE IF trim(merchantName) = <<>> THEN "invalidMerchant"
    ELSE ""

\* saveExpense with an invalid form: an Alert and nothing else
SaveExpenseInvalid(c, amount, merchantName) ==
    /\ c \in env.devices
    /\ op[c].pc = "idle"
    /\ auth[c] # NoUser
    /\ formError(amount, merchantName) # ""
    /\ op' = [op EXCEPT ![c] = [IdleOp EXCEPT !.pc = "done",
                                              !.alert = formError(amount, merchantName)]]
    /\ UNCHANGED <<now, env, auth, budgets, expenses, home>>
    /\ UNCHANGED <<periodVars, relayVars, screenVars>>

\* saveExpense with a valid form: collection('expenses').add(expenseDoc) is sent
SaveExpense(c, category, amount, merchantName) ==
    /\ c \in env.devices
    /\ op[c].pc = "idle"
    /\ auth[c] # NoUser
    /\ formError(amount, merchantName) = ""
    /\ Len(expenses) + Cardinality({x \in Clients : op[x].pc = "adding"}) < MaxExpenses
    /\ op' = [op EXCEPT ![c] = [IdleOp EXCEPT !.pc = "adding", !.uid = auth[c],
                                              !.category = category,
                                              !.amount = amount,
                                              !.merchantName = trim(merchantName)]]
    /\ UNCHANGED <<now, env, auth, budgets, expenses, home>>
    /\ UNCHANGED <<periodVars, relayVars, screenVars>>

\* the store writes the expense document, createdAt = serverTimestamp()
AddDone(c) ==
    /\ op[c].pc = "adding"
    /\ expenses' = Append(expenses, [userId |-> op[c].uid,
                                     amount |-> op[c].amount,
                                     merchantName |-> op[c].merchantName,
                                     createdAt |-> now])
    /\ op' = [op EXCEPT ![c].pc = "added", ![c].expenseId = Len(expenses) + 1]
    /\ UNCHANGED <<now, env, auth, budgets, home>>
    /\ UNCHANGED <<periodVars, relayVars, screenVars>>

\* the add is rejected: saveExpense's catch shows the failure
AddFail(c) ==
    /\ op[c].pc = "adding"
    /\ op' = [op EXCEPT ![c].pc = "done", ![c].alert = "failed"]
    /\ UNCHANGED <<now, env, auth, budgets, expenses, home>>
    /\ UNCHANGED <<periodVars, relayVars, screenVars>>

\* updateBudgetSpending finds no user and returns; saveExpense goes on to
\* schedule the alert checks and to show the success Alert
UpdateNoUser(c) ==
    /\ op[c].pc = "added"
    /\ auth[c] = NoUser
    /\ op' = [op EXCEPT ![c].pc = "scheduled", ![c].outcome = "noUser",
                        ![c].alert = "success"]
    /\ UNCHANGED <<now, env, auth, budgets, expenses, home>>
    /\ UNCHANGED <<periodVars, relayVars, screenVars>>

\* updateBudgetSpending reads the active budgets of the category and fills
\* the batch
UpdateRead(c) ==
    /\ op[c].pc = "added"
    /\ auth[c] # NoUser
    /\ LET found == ActiveBudgetsOf(auth[c], op[c].category)
       IN  op' = [op EXCEPT ![c].pc = "committing",
                            ![c].updateUid = auth[c],
                            ![c].snap = [d \in found |-> budgets[d]],
                            ![c].batch = [d \in found |->
                                updateFields(budgets[d], op[c].amount, now, tz)]]
    /\ UNCHANGED <<now, env, auth, budgets, expenses, home>>
    /\ UNCHANGED <<periodVars, relayVars, screenVars>>

\* the budgets query is rejected: updateBudgetSpending's catch logs and returns
UpdateReadFail(c) ==
    /\ op[c].pc = "added"
    /\ auth[c] # NoUser
    /\ op' = [op EXCEPT ![c].pc = "scheduled", ![c].outcome = "failed",
                        ![c].alert = "success"]
    /\ UNCHANGED <<now, env, auth, budgets, expenses, home>>
    /\ UNCHANGED <<periodVars, relayVars, screenVars>>

\* batch.commit() succeeds
Commit(c) ==
    /\ op[c].pc = "committing"
    /\ budgets' = CommitBatch(budgets, op[c].batch)
    /\ op' = [op EXCEPT ![c].pc = "scheduled", ![c].outcome = "updated",
                        ![c].alert = "success"]
    /\ UNCHANGED <<now, env, auth, expenses, home>>
    /\ UNCHANGED <<periodVars, relayVars, screenVars>>

\* batch.commit() is rejected: no update of the batch is applied, the catch
\* logs the error and saveExpense goes on
CommitFail(c) ==
    /\ op[c].pc = "committing"
    /\ op' = [op EXCEPT ![c].pc = "scheduled", ![c].outcome = "failed",
                        ![c].alert = "success"]
    /\ UNCHANGED <<now, env, auth, budgets, expenses, home>>
    /\ UNCHANGED <<periodVars, relayVars, screenVars>>

\* the invocation once saveExpense has returned: the timer callback's closure
\* holds the category and the amount; how updateBudgetSpending ended stays on
\* record
Forget(o, pc) ==
    [IdleOp EXCEPT !.pc = pc, !.category = o.category, !.amount = o.amount,
                   !.alert = o.alert, !.outcome = o.outcome]

\* the setTimeout callback runs: checkBudgetAlerts and checkOverspendingAlert
\* both read auth().currentUser and start their queries
TimerFire(c) ==
    /\ op[c].pc = "scheduled"
    /\ IF auth[c] = NoUser
       THEN op' = [op EXCEPT ![c] = Forget(op[c], "done")]
       ELSE op' = [op EXCEPT ![c] =
                    [Forget(op[c], "alerting") EXCEPT
                        !.alertUid = auth[c],
                        !.pending = {"budget", "overspend"}]]
    /\ UNCHANGED <<now, env, auth, budgets, expenses, home>>
    /\ UNCHANGED <<periodVars, relayVars, screenVars>>

\* a check of the timer callback has finished
Finish(o, check) ==
    [o EXCEPT !.pending = @ \ {check},
              !.pc = IF o.pending \ {check} = {} THEN "done" ELSE o.pc]

\* checkBudgetAlerts: its query returns and each budget is evaluated
CheckBudgetAlerts(c) ==
    /\ op[c].pc = "alerting"
    /\ "budget" \in op[c].pending
    /\ LET found == ActiveBudgetsOf(op[c].alertUid, op[c].category)
       IN  op' = [op EXCEPT ![c] =
                    [Finish(op[c], "budget") EXCEPT
                        !.evaluated = TRUE,
                        !.signals = {s \in [budget : found,
                                            level : {"exceeded", "warning"}] :
                                        s.level \in AlertLevel(budgets[s.budget], now, tz)}]]
    /\ UNCHANGED <<now, env, auth, budgets, expenses, home>>
    /\ UNCHANGED <<periodVars, relayVars, screenVars>>

\* checkBudgetAlerts: its query is rejected, the catch logs the error
CheckBudgetAlertsFail(c) ==
    /\ op[c].pc = "alerting"
    /\ "budget" \in op[c].pending
    /\ op' = [op EXCEPT ![c] = Finish(op[c], "budget")]
    /\ UNCHANGED <<now, env, auth, budgets, expenses, home>>
    /\ UNCHANGED <<periodVars, relayVars, screenVars>>

\* checkOverspendingAlert: its expenses query returns and the total is formed
CheckOverspendingAlert(c) ==
    /\ op[c].pc = "alerting"
    /\ "overspend" \in op[c].pending
    /\ op' = [op EXCEPT ![c] =
                [Finish(op[c], "overspend") EXCEPT
                    !.monthlyTotal =
                        totalMonthlySpent(op[c].alertUid, op[c].amount, now, tz),
                    !.overspending =
                        overspendingAlert(
                            totalMonthlySpent(op[c].alertUid, op[c].amount, now, tz),
                            env.overspendingLimit)]]
    /\ UNCHANGED <<now, env, auth, budgets, expenses, home>>
    /\ UNCHANGED <<periodVars, relayVars, screenVars>>

\* checkOverspendingAlert: a read is rejected, the catch logs the error
CheckOverspendingAlertFail(c) ==
    /\ op[c].pc = "alerting"
    /\ "overspend" \in op[c].pending
    /\ op' = [op EXCEPT ![c] = Finish(op[c], "overspend")]
    /\ UNCHANGED <<now, env, auth, budgets, expenses, home>>
    /\ UNCHANGED <<periodVars, relayVars, screenVars>>

\* the user dismisses the Alerts; the form is reset
Dismiss(c) ==
    /\ op[c].pc = "done"
    /\ op' = [op EXCEPT ![c] = IdleOp]
    /\ UNCHANGED <<now, env, auth, budgets, expenses, home>>
    /\ UNCHANGED <<periodVars, relayVars, screenVars>>

----------------------------------------------------------------------------
(* The Home screen (index.tsx).                                            *)

\* the screen gains focus or is pulled to refresh: loadUserData
Refresh(c) ==
    /\ c \in env.home
    /\ auth[c] # NoUser
    /\ auth[c] \notin home[c].loads
    /\ home' = [home EXCEPT ![c] = StartLoad(c, home[c])]
    /\ UNCHANGED <<now, env, auth, budgets, expenses, op>>
    /\ UNCHANGED <<periodVars, relayVars, screenVars>>

\* the query of a loadBudgets call made for user u returns: setBudgets
loadBudgets(c, u) ==
    /\ u \in home[c].loads
    /\ LET found == {d \in DOMAIN budgets :
                        budgets[d].userId = u /\ budgets[d].isActive}
       IN  home' = [home EXCEPT ![c].budgets = found,
                                ![c].loads = @ \ {u}]
    /\ UNCHANGED <<now, env, auth, budgets, expenses, op>>
    /\ UNCHANGED <<periodVars, relayVars, screenVars>>

\* saveBudget with a valid form: the budget of the same category and kind in
\* the loaded list is updated, or a new document is added; then loadBudgets
saveBudget(c, category, budgetType, budgetAmount) ==
    /\ c \in env.home
    /\ home[c].user # NoUser
    /\ LET currentPeriod == getCurrentPeriodHome(budgetType, now, tz)
           existing == {d \in home[c].budgets :
                          /\ budgets[d].category = category
                          /\ budgets[d].budgetType = budgetType}
       IN  IF existing # {}
           THEN \E d \in existing :
                  budgets' = [budgets EXCEPT ![d].budgetAmount = budgetAmount,
                                             ![d].currentPeriod = currentPeriod]
           ELSE /\ Len(budgets) < MaxBudgets
                /\ budgets' = Append(budgets,
                                [userId |-> home[c].user, category |-> category,
                                 budgetType |-> budgetType,
                                 budgetAmount |-> budgetAmount,
                                 currentPeriod |-> currentPeriod,
                                 currentSpent |-> 0, isActive |-> TRUE])
    /\ home' = [home EXCEPT ![c] = StartLoad(c, home[c])]
    /\ UNCHANGED <<now, env, auth, expenses, op>>
    /\ UNCHANGED <<periodVars, relayVars, screenVars>>

\* a deleteBudget that also clears the budget's accumulator
deleteBudget_clearSpent(c, budgetId) ==
    /\ c \in env.home
    /\ home[c].user # NoUser
    /\ budgetId \in home[c].budgets
    /\ budgets' = [budgets EXCEPT ![budgetId].isActive = FALSE,
                                  ![budgetId].currentSpent = 0]
    /\ home' = [home EXCEPT ![c] = StartLoad(c, home[c])]
    /\ UNCHANGED <<now, env, auth, expenses, op>>
    /\ UNCHANGED <<periodVars, relayVars, screenVars>>

\* deleteBudget confirmed for a budget of the list: isActive becomes false;
\* then loadBudgets
deleteBudget(c, budgetId) ==
    /\ c \in env.home
    /\ home[c].user # NoUser
    /\ budgetId \in home[c].budgets
    /\ budgets' = [budgets EXCEPT ![budgetId].isActive = FALSE]
    /\ home' = [home EXCEPT ![c] = StartLoad(c, home[c])]
    /\ UNCHANGED <<now, env, auth, expenses, op>>
    /\ UNCHANGED <<periodVars, relayVars, screenVars>>

----------------------------------------------------------------------------

Next ==
    \/ Tick
    \/ \E c \in Clients, u \in env.users : SignIn(c, u)
    \/ \E c \in Clients : SignOut(c)
    \/ \E c \in Clients : SaveExpenseNoUser(c)
    \/ \E c \in Clients, amount \in env.expenseAmounts \cup InvalidAmounts,
          merchantName \in MerchantNames :
            SaveExpenseInvalid(c, amount, merchantName)
    \/ \E c \in Clients, category \in env.categories,
          amount \in env.expenseAmounts \cup InvalidAmounts,
          merchantName \in MerchantNames :
            SaveExpense(c, category, amount, merchantName)
    \/ \E c \in Clients : AddDone(c)
    \/ \E c \in Clients : AddFail(c)
    \/ \E c \in Clients : UpdateNoUser(c)
    \/ \E c \in Clients : UpdateRead(c)
    \/ \E c \in Clients : UpdateReadFail(c)
    \/ \E c \in Clients : Commit(c)
    \/ \E c \in Clients : CommitFail(c)
    \/ \E c \in Clients : TimerFire(c)
    \/ \E c \in Clients : CheckBudgetAlerts(c)
    \/ \E c \in Clients : CheckBudgetAlertsFail(c)
    \/ \E c \in Clients : CheckOverspendingAlert(c)
    \/ \E c \in Clients : CheckOverspendingAlertFail(c)
    \/ \E c \in Clients : Dismiss(c)
    \/ \E c \in Clients : Refresh(c)
    \/ \E c \in Clients, u \in Users : loadBudgets(c, u)
    \/ \E c \in Clients, category \in env.categories, budgetType \in env.types,
          budgetAmount \in env.budgetAmounts :
            saveBudget(c, category, budgetType, budgetAmount)
    \/ \E c \in Clients, budgetId \in 1..MaxBudgets : deleteBudget(c, budgetId)

Spec == Init /\ [][Next]_vars

----------------------------------------------------------------------------
(* The relay (POST /extract-text) and the receipt screen's processFile.     *)
(* A file size is a whole number of megabytes.  A JSON value is a record:   *)
(* its kind, the keys it has when it is an object, and those of its keys    *)
(* whose value is null.                                                     *)

\* limits.fileSize of the upload, in megabytes
fileSizeLimit == 10

\* the keys the prompt asks for
AnalysisKeys == {"referenceId", "date", "time", "beneficiaryName", "amount"}

\* the object both catch blocks of analyzeFinancialDocument return
AllNull == [kind |-> "object", keys |-> AnalysisKeys, nulls |-> AnalysisKeys]

\* what the LLM call can give: a rejected call, or a completion whose content
\* is missing, is not JSON, or is JSON for one of several values
LLMOutcomes ==
    {"throws", "no content", "prose", "five fields", "five fields, date null",
     "null", "string", "other keys"}

\* completion.choices[0]?.message?.content parsed by JSON.parse: the value,
\* or a SyntaxError (undefined and prose are not JSON)
JSONparse(content) ==
    CASE content = "five fields" ->
            [ok |-> TRUE,
             value |-> [kind |-> "object", keys |-> AnalysisKeys, nulls |-> {}]]
      [] content = "five fields, date null" ->
            [ok |-> TRUE,
             value |-> [kind |-> "object", keys |-> AnalysisKeys, nulls |-> {"date"}]]
      [] content = "null" ->
            [ok |-> TRUE, value |-> [kind |-> "null", keys |-> {}, nulls |-> {}]]
      [] content = "string" ->
            [ok |-> TRUE, value |-> [kind |-> "string", keys |-> {}, nulls |-> {}]]
      [] content = "other keys" ->
            [ok |-> TRUE,
             value |-> [kind |-> "object", keys |-> {"total", "vendor"}, nulls |-> {}]]
      [] OTHER -> [ok |-> FALSE, value |-> NoAnalysis]

\* analyzeFinancialDocument that lets a rejected call and a parse error through
analyzeFinancialDocument_noCatch(llm) ==
    IF llm = "throws" THEN NoAnalysis ELSE JSONparse(llm).value

\* analyzeFinancialDocument(text): the value it resolves to
analyzeFinancialDocument(llm) ==
    IF llm = "throws" THEN AllNull
    ELSE IF JSONparse(llm).ok THEN JSONparse(llm).value
    ELSE AllNull

\* a fileFilter that accepts every upload
fileFilter_acceptAll(mimetype) == TRUE

\* multer's fileFilter
fileFilter(mimetype) == mimetype = "application/pdf"

\* the uploads a caller can send: none, or a file of some type and size
Uploads ==
    {NoFile} \cup [mimetype : {"application/pdf", "image/png"}, size : {1, 11}]

\* the texts scribe.extractText can resolve to
Texts == {"", "receipt"}

\* a caller waits at most MaxWait ticks in the model
MaxWait == 3

\* res.status(status).json({error})
ErrorResponse(status, error) ==
    [NoResponse EXCEPT !.status = status, !.error = error]

\* what upload.single('file') and the handler's first check do with a request
Upload(r) ==
    /\ reqs[r].pc = "sent"
    /\ LET file == reqs[r].file
       IN  IF file = NoFile
           THEN /\ reqs' = [reqs EXCEPT ![r].pc = "answered",
                              ![r].responses = @ + 1,
                              ![r].cause = "no file",
                              ![r].response = ErrorResponse(400, "No PDF file uploaded")]
                /\ files' = files
           ELSE IF ~fileFilter(file.mimetype)
           THEN /\ reqs' = [reqs EXCEPT ![r].pc = "answered",
                              ![r].responses = @ + 1,
                              ![r].cause = "rejected",
                              ![r].response =
                                  ErrorResponse(500, "Only PDF files are allowed!")]
                /\ files' = files
           ELSE IF file.size > fileSizeLimit
           THEN /\ reqs' = [reqs EXCEPT ![r].pc = "answered",
                              ![r].responses = @ + 1,
                              ![r].cause = "rejected",
                              ![r].response =
                                  ErrorResponse(400, "File too large. Maximum size is 10MB.")]
                /\ files' = files
           ELSE /\ reqs' = [reqs EXCEPT ![r].pc = "received"]
                /\ files' = files \cup {r}
    /\ UNCHANGED <<periodVars, appVars, screenVars>>

\* scribe.extractText starts and the timer is set; the handler awaits the race
StartExtraction(r) ==
    /\ reqs[r].pc = "received"
    /\ reqs' = [reqs EXCEPT ![r].pc = "extracting", ![r].ocr = "reading",
                            ![r].timer = "set"]
    /\ UNCHANGED <<files, periodVars, appVars, screenVars>>

\* the extraction resolves first
ExtractionDone(r, text) ==
    /\ reqs[r].pc = "extracting"
    /\ reqs' = [reqs EXCEPT ![r].pc = "analyzing", ![r].ocr = "done",
                            ![r].text = text]
    /\ UNCHANGED <<files, periodVars, appVars, screenVars>>

\* the catch of the handler: the file is removed if it exists, status 500
ExtractionError(r, cause, ocr) ==
    /\ reqs[r].pc = "extracting"
    /\ reqs' = [reqs EXCEPT ![r].pc = "answered", ![r].ocr = ocr,
                            ![r].cause = cause,
                            ![r].timer = IF cause = "timeout" THEN "fired" ELSE @,
                            ![r].responses = @ + 1,
                            ![r].response =
                                ErrorResponse(500, "Failed to extract text from PDF")]
    /\ files' = files \ {r}
    /\ UNCHANGED <<periodVars, appVars, screenVars>>

\* the extraction rejects first
ExtractionFail(r) == ExtractionError(r, "extraction failed", "failed")

\* the 30 second timer rejects first; the extraction goes on
ExtractionTimeout(r) == ExtractionError(r, "timeout", "reading")

\* an extraction that lost the race ends
LateExtractionEnd(r) ==
    /\ reqs[r].pc \in {"answered", "unanswered"}
    /\ reqs[r].ocr = "reading"
    /\ reqs' = [reqs EXCEPT ![r].ocr = "abandoned"]
    /\ UNCHANGED <<files, periodVars, appVars, screenVars>>

\* analyzeFinancialDocument resolves; the file is unlinked; res.json
Analyze(r, llm) ==
    /\ reqs[r].pc = "analyzing"
    /\ reqs' = [reqs EXCEPT ![r].pc = "answered", ![r].llm = llm,
                            ![r].cause = "processed",
                            ![r].responses = @ + 1,
                            ![r].response =
                                [status |-> 200, success |-> TRUE, error |-> "",
                                 extractedText |-> reqs[r].text,
                                 analysis |-> analyzeFinancialDocument(llm)]]
    /\ files' = files \ {r}
    /\ UNCHANGED <<periodVars, appVars, screenVars>>

\* fs.unlinkSync throws in the catch of the handler (the file exists and
\* cannot be removed): the exception leaves the async handler, which has sent
\* no response and sends none
CatchUnlinkFails(r, cause, ocr, llm) ==
    /\ reqs' = [reqs EXCEPT ![r].pc = "unanswered", ![r].ocr = ocr,
                            ![r].llm = llm, ![r].cause = cause,
                            ![r].timer = IF cause = "timeout" THEN "fired" ELSE @]
    /\ UNCHANGED <<files, periodVars, appVars, screenVars>>

\* the extraction rejects or the timer fires first, and the catch cannot
\* remove the file
ExtractionErrorUnlinkFails(r) ==
    /\ reqs[r].pc = "extracting"
    /\ \/ CatchUnlinkFails(r, "extraction failed", "failed", "")
       \/ CatchUnlinkFails(r, "timeout", "reading", "")

\* analyzeFinancialDocument resolves and fs.unlinkSync throws before
\* res.json; the catch finds the file and its fs.unlinkSync throws again
AnalyzeUnlinkFails(r, llm) ==
    /\ reqs[r].pc = "analyzing"
    /\ CatchUnlinkFails(r, "unlink failed", reqs[r].ocr, llm)

\* the 30 second timer fires after the race was settled by the extraction:
\* the rejection of timeoutPromise reaches nobody
LateTimeout(r) ==
    /\ reqs[r].timer = "set"
    /\ reqs[r].pc \in {"analyzing", "answered", "unanswered"}
    /\ reqs' = [reqs EXCEPT ![r].timer = "fired"]
    /\ UNCHANGED <<files, periodVars, appVars, screenVars>>

\* processFile: the receipt screen posts the picked PDF and awaits fetch
processFile(r) ==
    /\ reqs[r].pc = "none"
    /\ reqs' = [reqs EXCEPT ![r].pc = "sent",
                            ![r].file = [mimetype |-> "application/pdf", size |-> 1],
                            ![r].client = "waiting", ![r].loading = TRUE]
    /\ UNCHANGED <<files, periodVars, appVars, screenVars>>

\* another caller posts to the relay
Post(r, file) ==
    /\ reqs[r].pc = "none"
    /\ reqs' = [reqs EXCEPT ![r].pc = "sent", ![r].file = file]
    /\ UNCHANGED <<files, periodVars, appVars, screenVars>>

\* processFile: fetch resolves with the relay's response
FetchResolves(r) ==
    /\ reqs[r].client = "waiting"
    /\ reqs[r].pc = "answered"
    /\ reqs' = [reqs EXCEPT
                  ![r].client = IF reqs[r].response.status = 200
                                   /\ reqs[r].response.success
                                THEN "shown" ELSE "failed",
                  ![r].loading = FALSE]
    /\ UNCHANGED <<files, periodVars, appVars, screenVars>>

\* processFile: fetch rejects (the connection is lost); catch, finally
FetchRejects(r) ==
    /\ reqs[r].client = "waiting"
    /\ reqs' = [reqs EXCEPT ![r].client = "failed", ![r].loading = FALSE]
    /\ UNCHANGED <<files, periodVars, appVars, screenVars>>

\* time passes for the callers that wait
Wait ==
    /\ \E r \in Requests : reqs[r].client = "waiting" /\ reqs[r].waited < MaxWait
    /\ reqs' = [r \in Requests |->
                  IF reqs[r].client = "waiting" /\ reqs[r].waited < MaxWait
                  THEN [reqs[r] EXCEPT !.waited = @ + 1] ELSE reqs[r]]
    /\ UNCHANGED <<files, periodVars, appVars, screenVars>>

InitRelay ==
    /\ tz = 0
    /\ d1 = 0
    /\ d2 = 0
    /\ kind = ""
    /\ k1 = <<>>
    /\ k2 = <<>>
    /\ now = 0
    /\ env = [devices |-> {}, home |-> {}, signing |-> {}, users |-> {},
              categories |-> {}, types |-> {}, budgetAmounts |-> {},
              expenseAmounts |-> {}, overspendingLimit |-> DefaultOverspendingLimit]
    /\ auth = [c \in Clients |-> NoUser]
    /\ budgets = <<>>
    /\ expenses = <<>>
    /\ op = [c \in Clients |-> IdleOp]
    /\ home = [c \in Clients |-> EmptyHome]
    /\ reqs = [r \in Requests |-> NoRequest]
    /\ files = {}
    /\ categories = {}
    /\ lists = [s \in Screens |-> FirstList]
    /\ layout = FirstLayout

NextRelay ==
    \/ \E r \in Requests : processFile(r)
    \/ \E r \in Requests, file \in Uploads : Post(r, file)
    \/ \E r \in Requests : Upload(r)
    \/ \E r \in Requests : StartExtraction(r)
    \/ \E r \in Requests, text \in Texts : ExtractionDone(r, text)
    \/ \E r \in Requests : ExtractionFail(r)
    \/ \E r \in Requests : ExtractionTimeout(r)
    \/ \E r \in Requests : LateExtractionEnd(r)
    \/ \E r \in Requests, llm \in LLMOutcomes : Analyze(r, llm)
    \/ \E r \in Requests : ExtractionErrorUnlinkFails(r)
    \/ \E r \in Requests, llm \in LLMOutcomes : AnalyzeUnlinkFails(r, llm)
    \/ \E r \in Requests : LateTimeout(r)
    \/ \E r \in Requests : FetchResolves(r)
    \/ \E r \in Requests : FetchRejects(r)
    \/ Wait

SpecRelay == InitRelay /\ [][NextRelay]_vars

----------------------------------------------------------------------------
(* Category lists and the layouts (ocr.tsx, index.tsx, history,             *)
(* _layout.tsx, (tabs)/_layout.tsx, auth.tsx).                              *)

\* the contents the categories collection can have; it is reference data
\* that is maintained outside the client
StoredCategorySets == {{}, {"travel"}, {"travel", "pets"}}

\* the collection is edited
CategoriesChange(stored) ==
    /\ stored # categories
    /\ categories' = stored
    /\ UNCHANGED <<lists, layout, periodVars, appVars, relayVars>>

\* a screen's list after its loadCategories got the snapshot: setCategories
\* only if (!snapshot.empty)
categoriesAfterLoad(list, snapshot) ==
    IF snapshot # {}
    THEN [categories |-> snapshot, found |-> "documents"]
    ELSE [list EXCEPT !.found = "empty"]

\* loadCategories of a screen: the query returns
loadCategories(s) ==
    /\ lists' = [lists EXCEPT ![s] = categoriesAfterLoad(lists[s], categories)]
    /\ lists' # lists
    /\ UNCHANGED <<categories, layout, periodVars, appVars, relayVars>>

\* RootLayout: the splash view until the fonts are loaded and the first auth
\* state event has arrived, then the navigation stack
RootLayout(loaded, initializing) ==
    IF ~loaded \/ initializing THEN "splash" ELSE "stack"

\* a TabLayout that never redirects
TabLayout_noRedirect(user, initializing) ==
    IF initializing THEN "nothing" ELSE "tabs"

\* TabLayout: nothing while initializing, a Redirect without a user, else
\* the tabs
TabLayout(user, initializing) ==
    IF initializing THEN "nothing"
    ELSE IF user = NoUser THEN "redirect"
    ELSE "tabs"

\* AuthScreen: nothing when the user is authenticated, else the sign-in form
AuthScreen(user) == IF user # NoUser THEN "nothing" ELSE "sign-in"

\* what is on screen for a state of the root layout and a route
Render(l) ==
    IF RootLayout(l.loaded, l.initializing) = "splash" THEN "splash"
    ELSE IF l.route = "(tabs)" THEN TabLayout(l.user, l.initializing)
    ELSE AuthScreen(l.user)

Rendered(l) == [l EXCEPT !.shown = Render(l)]

\* useFonts resolves
FontsLoaded ==
    /\ ~layout.loaded
    /\ layout' = Rendered([layout EXCEPT !.loaded = TRUE])
    /\ UNCHANGED <<categories, lists, periodVars, appVars, relayVars>>

\* the user signs in on the sign-in form
LayoutSignIn(u) ==
    /\ layout.shown = "sign-in"
    /\ layout.currentUser = NoUser
    /\ layout' = [layout EXCEPT !.currentUser = u]
    /\ UNCHANGED <<categories, lists, periodVars, appVars, relayVars>>

\* the user signs out on the Profile tab
LayoutSignOut ==
    /\ layout.shown = "tabs"
    /\ layout.currentUser # NoUser
    /\ layout' = [layout EXCEPT !.currentUser = NoUser]
    /\ UNCHANGED <<categories, lists, periodVars, appVars, relayVars>>

\* RootLayout's onAuthStateChanged: the first event, or an event for a change
onAuthStateChanged ==
    /\ layout.initializing \/ layout.user # layout.currentUser
    /\ layout' = Rendered([layout EXCEPT !.user = layout.currentUser,
                                          !.initializing = FALSE])
    /\ UNCHANGED <<categories, lists, periodVars, appVars, relayVars>>

\* the Redirect TabLayout returned takes effect
Redirect ==
    /\ layout.shown = "redirect"
    /\ layout' = Rendered([layout EXCEPT !.route = "auth"])
    /\ UNCHANGED <<categories, lists, periodVars, appVars, relayVars>>

\* AuthScreen's effect: router.replace('/(tabs)') once a user is there
AuthScreenReplace ==
    /\ layout.route = "auth"
    /\ RootLayout(layout.loaded, layout.initializing) = "stack"
    /\ ~layout.initializing
    /\ layout.user # NoUser
    /\ layout' = Rendered([layout EXCEPT !.route = "(tabs)"])
    /\ UNCHANGED <<categories, lists, periodVars, appVars, relayVars>>

InitScreens ==
    /\ tz = 0
    /\ d1 = 0
    /\ d2 = 0
    /\ kind = ""
    /\ k1 = <<>>
    /\ k2 = <<>>
    /\ now = 0
    /\ env = [devices |-> {}, home |-> {}, signing |-> {}, users |-> {},
              categories |-> {}, types |-> {}, budgetAmounts |-> {},
              expenseAmounts |-> {}, overspendingLimit |-> DefaultOverspendingLimit]
    /\ auth = [c \in Clients |-> NoUser]
    /\ budgets = <<>>
    /\ expenses = <<>>
    /\ op = [c \in Clients |-> IdleOp]
    /\ home = [c \in Clients |-> EmptyHome]
    /\ reqs = [r \in Requests |-> NoRequest]
    /\ files = {}
    /\ categories \in StoredCategorySets
    /\ lists = [s \in Screens |-> FirstList]
    /\ \E u \in Users \cup {NoUser} : layout = [FirstLayout EXCEPT !.currentUser = u]

NextScreens ==
    \/ \E stored \in StoredCategorySets : CategoriesChange(stored)
    \/ \E s \in Screens : loadCategories(s)
    \/ FontsLoaded
    \/ \E u \in Users : LayoutSignIn(u)
    \/ LayoutSignOut
    \/ onAuthStateChanged
    \/ Redirect
    \/ AuthScreenReplace

SpecScreens == InitScreens /\ [][NextScreens]_vars

----------------------------------------------------------------------------
(* Properties of the period key.                                           *)

SameCalendarMonth(a, b, z) ==
    /\ getFullYear(a, z) = getFullYear(b, z)
    /\ getMonth(a, z) = getMonth(b, z)

\* C7: the monthly keys of two instants are equal if and only if the two
\* instants fall in the same calendar month of the same calendar year.
MonthlyKeyIffSameMonth ==
    kind = "monthly" => ((k1 = k2) <=> SameCalendarMonth(d1, d2, tz))

\* two instants in the same month of different years, with different keys
MonthlyKeySameMonthOtherYear ==
    /\ kind = "monthly"
    /\ getMonth(d1, tz) = getMonth(d2, tz)
    /\ getFullYear(d1, tz) # getFullYear(d2, tz)
    /\ k1 # k2

\* the two instants fall on the same date of the device's calendar
SameCalendarDate(a, b, z) ==
    /\ SameCalendarMonth(a, b, z)
    /\ getDate(a, z) = getDate(b, z)

\* C21: the daily key is the calendar date in the calendar the weekly and
\* monthly keys use: the daily keys of two instants are equal if and only if
\* the instants fall on the same calendar date, and the year-month part of a
\* daily key is the monthly key of the same instant.
DailyKeyIsCalendarDate ==
    kind = "daily" =>
        /\ (k1 = k2) <=> SameCalendarDate(d1, d2, tz)
        /\ SubSeq(k1, 1, 7) = getCurrentPeriod("monthly", d1, tz)
        /\ SubSeq(k2, 1, 7) = getCurrentPeriod("monthly", d2, tz)

\* the number a digit character stands for
DigitValue(ch) == CHOOSE n \in 0..9 : DigitChar(n) = ch

\* the week number written in a weekly key "YYYY-Wnn"
WeekNumberOf(key) == DigitValue(key[7]) * 10 + DigitValue(key[8])

\* the Sunday-to-Saturday week of the device's calendar an instant lies in,
\* counted from the week of 1970-01-01 (a Thursday)
CalendarWeek(t, z) == ((LocalHours(t, z) \div 24) + 4) \div 7

\* the instant is on January 1 of the device's calendar
OnJanuaryFirst(t, z) == getMonth(t, z) = 0 /\ getDate(t, z) = 1

CopiesAgree ==
    [][(kind = "" /\ kind' # "") =>
          /\ k1' = getCurrentPeriodHome(kind', d1, tz)
          /\ k2' = getCurrentPeriodHome(kind', d2, tz)
          /\ UNCHANGED <<tz, d1, d2, appVars, relayVars, screenVars>>
      ]_vars

\* both copies have given the same daily key at an instant that the device's
\* calendar puts on another date than UTC does
CopiesAgreeOffUTC ==
    /\ kind = "daily"
    /\ k1 = getCurrentPeriodHome("daily", d1, tz)
    /\ getDate(d1, tz) # getDate(d1, 0)

----------------------------------------------------------------------------
(* Properties of recording an expense.                                     *)

\* device c's updateBudgetSpending reads the budgets in this step
ReadsBudgets(c) == op[c].pc = "added" /\ op'[c].pc = "committing"

\* device c's batch is committed in this step
Commits(c) ==
    op[c].pc = "committing" /\ op'[c].pc = "scheduled" /\ op'[c].outcome = "updated"

\* device c's commit is rejected in this step
CommitRejected(c) ==
    op[c].pc = "committing" /\ op'[c].pc = "scheduled" /\ op'[c].outcome = "failed"

\* C1: for every active budget of the current user in the expense's category
\* whose stored period differs from the current period key when the expense is
\* recorded, the completed update leaves currentSpent equal to the expense
\* amount, whatever it was, and the stored period equal to that key.
ResetOnNewPeriod ==
    [][\A c \in Clients :
        /\ ReadsBudgets(c) =>
             \A d \in ActiveBudgetsOf(auth[c], op[c].category) :
                budgets[d].currentPeriod # getCurrentPeriod(budgets[d].budgetType, now, tz)
                => /\ d \in DOMAIN op'[c].batch
                   /\ op'[c].snap[d] = budgets[d]
                   /\ op'[c].batch[d].currentPeriod =
                        getCurrentPeriod(budgets[d].budgetType, now, tz)
        /\ Commits(c) =>
             \A d \in DOMAIN op[c].snap :
                op[c].snap[d].currentPeriod # op[c].batch[d].currentPeriod
                => /\ budgets'[d].currentSpent = op[c].amount
                   /\ budgets'[d].currentPeriod = op[c].batch[d].currentPeriod
      ]_vars

\* an update has reset a budget that had spending in an earlier period
ResetHappened ==
    \E c \in Clients :
        /\ op[c].pc = "scheduled"
        /\ op[c].outcome = "updated"
        /\ \E d \in DOMAIN op[c].snap :
            /\ op[c].snap[d].currentPeriod # op[c].batch[d].currentPeriod
            /\ op[c].snap[d].currentSpent > 0
            /\ budgets[d].currentSpent = op[c].amount
            /\ budgets[d].currentPeriod = getCurrentPeriod(budgets[d].budgetType, now, tz)

\* C2: for every active budget of the current user in the expense's category
\* whose stored period equals the current period key when the expense is
\* recorded, the completed update leaves currentSpent equal to the value read
\* at recording time plus the expense amount, and does not write the period.
AddWithinPeriod ==
    [][\A c \in Clients :
        /\ ReadsBudgets(c) =>
             \A d \in ActiveBudgetsOf(auth[c], op[c].category) :
                budgets[d].currentPeriod = getCurrentPeriod(budgets[d].budgetType, now, tz)
                => /\ d \in DOMAIN op'[c].batch
                   /\ op'[c].snap[d] = budgets[d]
                   /\ op'[c].batch[d].currentPeriod = budgets[d].currentPeriod
        /\ Commits(c) =>
             \A d \in DOMAIN op[c].snap :
                op[c].snap[d].currentPeriod = op[c].batch[d].currentPeriod
                => /\ budgets'[d].currentSpent =
                        op[c].snap[d].currentSpent + op[c].amount
                   /\ budgets'[d].currentPeriod = budgets[d].currentPeriod
      ]_vars

\* an update has added to a budget that already had spending in the period
AddHappened ==
    \E c \in Clients :
        /\ op[c].pc = "scheduled"
        /\ op[c].outcome = "updated"
        /\ \E d \in DOMAIN op[c].snap :
            /\ op[c].snap[d].currentPeriod = op[c].batch[d].currentPeriod
            /\ op[c].snap[d].currentSpent > 0
            /\ budgets[d].currentSpent = op[c].snap[d].currentSpent + op[c].amount
            /\ budgets[d].currentPeriod = op[c].snap[d].currentPeriod

\* C3: no operation moves a budget's stored period to a new key while keeping
\* the spending accumulated under the old key: when the stored period of a
\* budget with spending changes, the step is the commit of an expense's update
\* and currentSpent becomes that expense's amount.
PeriodMovesOnlyWithReset ==
    [][\A d \in DOMAIN budgets :
        (budgets'[d].currentPeriod # budgets[d].currentPeriod
         /\ budgets[d].currentSpent > 0)
        => \E c \in Clients :
              /\ Commits(c)
              /\ d \in DOMAIN op[c].batch
              /\ budgets'[d].currentSpent = op[c].amount
      ]_vars

\* C4: once two recordings of amounts A and B by the same user in the same
\* category, whose updates both read a budget before either committed, have
\* both completed within the period, the budget's currentSpent is the value
\* they read plus A plus B.
NoLostUpdate ==
    \A a, b \in Clients :
        (/\ a # b
         /\ op[a].pc = "scheduled" /\ op[a].outcome = "updated"
         /\ op[b].pc = "scheduled" /\ op[b].outcome = "updated"
         /\ op[a].category = op[b].category)
        => \A d \in DOMAIN op[a].batch \cap DOMAIN op[b].batch :
              (/\ ~op[a].batch[d].reset
               /\ ~op[b].batch[d].reset
               /\ op[a].batch[d].currentPeriod = op[b].batch[d].currentPeriod
               /\ op[a].snap[d].currentSpent = op[b].snap[d].currentSpent)
              => budgets[d].currentSpent =
                    op[a].snap[d].currentSpent + op[a].amount + op[b].amount

\* device c's checkBudgetAlerts evaluates its query result in this step
EvaluatesBudgets(c) == ~op[c].evaluated /\ op'[c].evaluated

Signalled(c, d, level) == [budget |-> d, level |-> level] \in op'[c].signals

\* the budget's stored period is the current period of its kind
InCurrentPeriod(d) ==
    budgets[d].currentPeriod = getCurrentPeriod(budgets[d].budgetType, now, tz)

\* C5 as stated: every active budget of the expense's category is signalled
\* by its ratio alone: exceeded from 100%, warning from 90% to below 100%,
\* nothing below 90%, and never both.
AlertsByRatio ==
    [][\A c \in Clients :
        EvaluatesBudgets(c) =>
          \A d \in ActiveBudgetsOf(op[c].alertUid, op[c].category) :
            LET spent == budgets[d].currentSpent
                amount == budgets[d].budgetAmount
            IN  /\ spent >= amount
                    => Signalled(c, d, "exceeded") /\ ~Signalled(c, d, "warning")
                /\ (spent * 10 >= amount * 9 /\ spent < amount)
                    => Signalled(c, d, "warning") /\ ~Signalled(c, d, "exceeded")
                /\ spent * 10 < amount * 9
                    => ~Signalled(c, d, "warning") /\ ~Signalled(c, d, "exceeded")
      ]_vars

\* C5: for every active budget of the expense's category that
\* checkBudgetAlerts reads: if its stored period is the current period of its
\* kind at the evaluation, exceeded is signalled from 100%, warning from 90% to
\* below 100% and nothing below 90%; if its stored period is another one,
\* nothing is signalled; no budget gets both signals, and no other budget any.
AlertsByRatioInCurrentPeriod ==
    [][\A c \in Clients :
        EvaluatesBudgets(c) =>
          /\ \A d \in ActiveBudgetsOf(op[c].alertUid, op[c].category) :
                LET spent == budgets[d].currentSpent
                    amount == budgets[d].budgetAmount
                IN  /\ (InCurrentPeriod(d) /\ spent >= amount)
                        => Signalled(c, d, "exceeded") /\ ~Signalled(c, d, "warning")
                    /\ (InCurrentPeriod(d) /\ spent * 10 >= amount * 9 /\ spent < amount)
                        => Signalled(c, d, "warning") /\ ~Signalled(c, d, "exceeded")
                    /\ (InCurrentPeriod(d) /\ spent * 10 < amount * 9)
                        => ~Signalled(c, d, "warning") /\ ~Signalled(c, d, "exceeded")
                    /\ ~InCurrentPeriod(d)
                        => ~Signalled(c, d, "warning") /\ ~Signalled(c, d, "exceeded")
          /\ \A s \in op'[c].signals :
                s.budget \in ActiveBudgetsOf(op[c].alertUid, op[c].category)
      ]_vars

\* an evaluation has warned about a budget between 90% and 100%
WarningSignalled ==
    \E c \in Clients :
        /\ op[c].evaluated
        /\ \E d \in DOMAIN budgets :
            /\ [budget |-> d, level |-> "warning"] \in op[c].signals
            /\ budgets[d].currentSpent * 10 >= budgets[d].budgetAmount * 9
            /\ budgets[d].currentSpent < budgets[d].budgetAmount

\* the month of the scenario's budget
ScenarioMonth == getCurrentPeriod("monthly", ClockStart, tz)

\* C6: the threshold evaluation of an expense comes after that expense's
\* budget update and sees the accumulator that includes it: with a monthly
\* budget of 100 and 85 spent, recording 10 in the same month and category
\* gives 95 and a warning, recording 20 gives 105 and exceeded.
EvaluationSeesUpdate ==
    [][\A c \in Clients :
        /\ op'[c].pc = "alerting" => op'[c].outcome # ""
        /\ (/\ EvaluatesBudgets(c)
            /\ env = ScenarioEnv
            /\ Len(expenses) = 2
            /\ op[c].outcome = "updated"
            /\ getCurrentPeriod("monthly", now, tz) = ScenarioMonth
            /\ budgets[1].currentPeriod = ScenarioMonth)
           => /\ op[c].amount = 10 =>
                    /\ budgets[1].currentSpent = 95
                    /\ op'[c].signals = {[budget |-> 1, level |-> "warning"]}
              /\ op[c].amount = 20 =>
                    /\ budgets[1].currentSpent = 105
                    /\ op'[c].signals = {[budget |-> 1, level |-> "exceeded"]}
      ]_vars

\* the scenario's expense of 10 has been recorded and has raised the warning
ScenarioWarning ==
    /\ env = ScenarioEnv
    /\ op[1].evaluated
    /\ op[1].amount = 10
    /\ op[1].outcome = "updated"
    /\ budgets[1].currentSpent = 95
    /\ op[1].signals = {[budget |-> 1, level |-> "warning"]}

\* C8: whenever an authentication check of the recording finds no user, the
\* store holds no write of that recording: no expense document and no budget
\* update.
NoUserNoWrite ==
    \A c \in Clients :
        (op[c].alert = "notLoggedIn" \/ op[c].outcome = "noUser")
        => op[c].expenseId \notin DOMAIN expenses

\* the budgets of device c's batch other than d carry their update
OthersUpdated(c, d) ==
    \A x \in DOMAIN op[c].batch \ {d} :
        budgets'[x] = ApplyUpdate(budgets[x], op[c].batch[x])

\* C9 as stated: when the write to one budget of the batch fails, every other
\* budget of the batch still receives its update.
OtherBudgetsStillUpdated ==
    [][\A c \in Clients :
        (CommitRejected(c) /\ Cardinality(DOMAIN op[c].batch) >= 2)
        => \E d \in DOMAIN op[c].batch : OthersUpdated(c, d)
      ]_vars

\* C9: the updates of one recording are written as one batch: a commit
\* either applies the update of every budget of the batch or, when it is
\* rejected, changes no budget at all; the rejected commit is not retried.
BatchAllOrNothing ==
    [][\A c \in Clients :
        /\ Commits(c) =>
             \A d \in DOMAIN budgets :
                budgets'[d] = IF d \in DOMAIN op[c].batch
                              THEN ApplyUpdate(budgets[d], op[c].batch[d])
                              ELSE budgets[d]
        /\ CommitRejected(c) => budgets' = budgets
        /\ op[c].pc \in {"scheduled", "alerting", "done"}
             => op'[c].pc \notin {"added", "committing"}
      ]_vars

\* a commit for two budgets has been rejected and both are as they were read
BatchRejected ==
    \E c \in Clients :
        /\ op[c].pc = "scheduled"
        /\ op[c].outcome = "failed"
        /\ Cardinality(DOMAIN op[c].batch) >= 2
        /\ \A d \in DOMAIN op[c].batch : budgets[d] = op[c].snap[d]

\* the amounts of the user's expenses created in the calendar month of t
ExpensesOfMonth(uid, t, z) ==
    SumAmounts(expenses, {e \in DOMAIN expenses :
                            /\ expenses[e].userId = uid
                            /\ SameCalendarMonth(expenses[e].createdAt, t, z)})

\* C10: the monthly total checkOverspendingAlert compares with the threshold
\* is the sum of the user's expenses created in the current calendar month,
\* each counted once.
MonthlyTotalCountsOnce ==
    [][\A c \in Clients :
        (op[c].monthlyTotal = -1 /\ op'[c].monthlyTotal # -1)
        => op'[c].monthlyTotal = ExpensesOfMonth(op[c].alertUid, now, tz)
      ]_vars

\* C11: after an expense is saved, the monthly check signals exceeded when
\* the total it formed is at least the user's overspending threshold, warning
\* when the total is at least 90% of the threshold and below it, and nothing
\* below 90%.
OverspendingCutoffs ==
    [][\A c \in Clients :
        (op[c].monthlyTotal = -1 /\ op'[c].monthlyTotal # -1) =>
          LET total == op'[c].monthlyTotal
              limit == env.overspendingLimit
          IN  /\ total >= limit => op'[c].overspending = {"exceeded"}
              /\ (total * 10 >= limit * 9 /\ total < limit)
                    => op'[c].overspending = {"warning"}
              /\ total * 10 < limit * 9 => op'[c].overspending = {}
      ]_vars

\* C18: a persistence error while an expense is recorded is surfaced: when
\* the expense add or the budget update's read or commit was rejected,
\* saveExpense reports a failure to the user and does not report success.
PersistenceErrorSurfaced ==
    \A c \in Clients :
        /\ op[c].outcome = "failed" => op[c].alert = "failed"
        /\ op[c].alert = "success" => op[c].outcome \in {"updated", "noUser"}

\* C19: the budgets the Home screen holds all belong to the user who is
\* authenticated on the device, and the screen holds none while no user is
\* authenticated, also when a load started earlier completes.
HomeShowsOwnData ==
    \A c \in Clients :
        \A d \in home[c].budgets : budgets[d].userId = auth[c]

\* C20: once the period key of a budget's kind has changed from the budget's
\* stored period, the Home screen reports the spend of the new period for it
\* (nothing spent, 0%, no exceeded banner, as long as no expense of the new
\* period has been added to it) and not the total of the previous period.
HomeReportsCurrentPeriod ==
    \A c \in Clients :
        \A d \in home[c].budgets :
            budgets[d].currentPeriod # getCurrentPeriod(budgets[d].budgetType, now, tz)
            => /\ budgetCard(budgets[d]).spent = 0
               /\ budgetCard(budgets[d]).progressPercentage = 0
               /\ ~budgetCard(budgets[d]).exceeded

\* budget d is deactivated in this step
Deactivated(d) == budgets[d].isActive /\ ~budgets'[d].isActive

\* a loadBudgets call of device c completes in this step
LoadCompletes(c) == home'[c].loads # home[c].loads /\ home'[c].loads \subseteq home[c].loads

\* C23: deleting a budget only flips its flag: the document stays in the
\* store with isActive = false and every other field as it was, no other
\* budget changes, a reload is started for the signed-in user, and a list
\* that a completed reload has set holds no deactivated budget.
DeleteIsSoft ==
    [][/\ \A d \in DOMAIN budgets :
            Deactivated(d) =>
                /\ budgets' = [budgets EXCEPT ![d].isActive = FALSE]
                /\ \E c \in Clients :
                      /\ d \in home[c].budgets
                      /\ auth[c] # NoUser => auth[c] \in home'[c].loads
       /\ Len(budgets') >= Len(budgets)
       /\ \A c \in Clients :
            LoadCompletes(c) => \A d \in home'[c].budgets : budgets'[d].isActive
      ]_vars

\* a budget with spending has been deleted and the reloaded list is empty
DeletedBudgetKept ==
    \E c \in Clients, d \in DOMAIN budgets :
        /\ ~budgets[d].isActive
        /\ budgets[d].currentSpent > 0
        /\ budgets[d].userId = auth[c]
        /\ home[c].user = auth[c]
        /\ home[c].loads = {}
        /\ home[c].budgets = {}

\* C24: every expense document has a positive amount, a non-empty trimmed
\* merchant name and the userId of the user who was authenticated when
\* saveExpense was invoked; a saveExpense that is rejected for its amount or
\* its merchant name shows a message and writes nothing.
ExpensesAreValid ==
    [][/\ \A e \in DOMAIN expenses' :
            /\ expenses'[e].amount > 0
            /\ expenses'[e].merchantName # <<>>
            /\ trim(expenses'[e].merchantName) = expenses'[e].merchantName
            /\ expenses'[e].userId # NoUser
       /\ \A c \in Clients :
            /\ (op[c].pc = "idle" /\ op'[c].pc = "adding") => op'[c].uid = auth[c]
            /\ (op[c].pc = "adding" /\ op'[c].pc = "added") =>
                  /\ expenses' = Append(expenses, expenses'[Len(expenses')])
                  /\ expenses'[Len(expenses')].userId = op[c].uid
                  /\ expenses'[Len(expenses')].amount = op[c].amount
            /\ op'[c].alert \in {"invalidAmount", "invalidMerchant"} =>
                  /\ op'[c].pc = "done"
                  /\ op'[c].expenseId = 0
                  /\ op[c].pc = "idle" => expenses' = expenses /\ budgets' = budgets
      ]_vars

\* a form with a blank merchant name has been rejected, next to a stored
\* expense whose merchant name was trimmed
BlankMerchantRejected ==
    \E c \in Clients :
        /\ op[c].pc = "done"
        /\ op[c].alert = "invalidMerchant"
        /\ Len(expenses) >= 1
        /\ expenses[1].merchantName = <<"K", "F", "C">>

\* C27: the commit of updateBudgetSpending(C, A) run for user U leaves
\* unchanged every budget document that is inactive, belongs to another user
\* or has another category, and on the documents it updates it changes none
\* of budgetAmount, budgetType, isActive, userId and category.
UpdateTouchesOnlyActiveOwn ==
    [][\A c \in Clients :
        Commits(c) =>
          \A d \in DOMAIN budgets :
            /\ (\/ ~budgets[d].isActive
                \/ budgets[d].userId # op[c].updateUid
                \/ budgets[d].category # op[c].category)
               => budgets'[d] = budgets[d]
            /\ budgets'[d].budgetAmount = budgets[d].budgetAmount
            /\ budgets'[d].budgetType = budgets[d].budgetType
            /\ budgets'[d].isActive = budgets[d].isActive
            /\ budgets'[d].userId = budgets[d].userId
            /\ budgets'[d].category = budgets[d].category
      ]_vars

\* C28: after any sequence of saveBudget and deleteBudget operations of one
\* user, a second saveBudget before the first one's reload has completed
\* included, the store holds at most one active budget document per userId,
\* category and budgetType.
OneActiveBudgetPerKey ==
    \A a, b \in DOMAIN budgets :
        (/\ budgets[a].isActive /\ budgets[b].isActive
         /\ budgets[a].userId = budgets[b].userId
         /\ budgets[a].category = budgets[b].category
         /\ budgets[a].budgetType = budgets[b].budgetType)
        => a = b

----------------------------------------------------------------------------
(* Properties of the category lists and the layouts.                       *)

\* C25: whenever a screen's loadCategories has found the categories
\* collection empty, the list the screen uses is the hardcoded default set,
\* whatever earlier loads returned.
EmptyStoreGivesDefaults ==
    \A s \in Screens :
        lists[s].found = "empty" => lists[s].categories = defaultCategories

\* C29: the tab screens are rendered only when authentication has finished
\* initializing and the layout holds a user: while initializing nothing of
\* the tabs is rendered; whenever initializing is false and the user is null
\* the tab layout renders the redirect to the auth screen; and initializing
\* never becomes true again once it is false.
TabsOnlyForSignedIn ==
    [][/\ layout'.shown = "tabs"
            => ~layout'.initializing /\ layout'.user # NoUser
       /\ layout'.initializing => layout'.shown = "splash"
       /\ (/\ layout'.loaded /\ ~layout'.initializing
           /\ layout'.user = NoUser /\ layout'.route = "(tabs)")
            => layout'.shown = "redirect"
       /\ ~layout.initializing => ~layout'.initializing
      ]_vars

\* the tabs are on screen for a signed-in user after the first auth event
TabsShown ==
    /\ layout.shown = "tabs"
    /\ layout.loaded
    /\ ~layout.initializing
    /\ layout.user \in Users
    /\ layout.user = layout.currentUser

----------------------------------------------------------------------------
(* Properties of the relay.                                                *)

\* the upload of request r is not a PDF or is larger than 10 MB
FailsValidation(r) ==
    /\ reqs[r].file # NoFile
    /\ \/ reqs[r].file.mimetype # "application/pdf"
       \/ reqs[r].file.size > 10

\* C12: an upload that is not application/pdf or exceeds 10 MB is answered
\* with an error response, and neither the extraction nor the LLM analysis is
\* ever started for that request.
InvalidUploadRejected ==
    \A r \in Requests :
        FailsValidation(r) =>
            /\ reqs[r].pc \in {"sent", "answered"}
            /\ reqs[r].pc = "answered" =>
                  /\ reqs[r].response.status >= 400
                  /\ ~reqs[r].response.success
                  /\ reqs[r].response.error # ""
            /\ reqs[r].ocr = "idle"
            /\ reqs[r].llm = ""
            /\ reqs[r].cause # "processed"
            /\ r \notin files

\* an oversized PDF has been answered with status 400
OversizedAnswered ==
    \E r \in Requests :
        /\ reqs[r].pc = "answered"
        /\ reqs[r].file.mimetype = "application/pdf"
        /\ reqs[r].file.size > 10
        /\ reqs[r].response.status = 400

\* C13: a valid PDF whose extraction fails or is overtaken by the 30 second
\* timeout is answered with a result whose analysis has all five fields null,
\* not with an error status.
ExtractionFailureDegrades ==
    \A r \in Requests :
        reqs[r].cause \in {"extraction failed", "timeout"} =>
            /\ reqs[r].response.status = 200
            /\ reqs[r].response.analysis = AllNull

\* the LLM outcomes in which the call throws or the content is not JSON
LLMFailures == {"throws", "no content", "prose"}

\* C14: when the extraction succeeds and the LLM call throws or returns
\* content that is not JSON, the analysis is the object with all five fields
\* null and the request is answered with success and the extracted text.
LLMFailureDegrades ==
    \A r \in Requests :
        (reqs[r].cause = "processed" /\ reqs[r].llm \in LLMFailures) =>
            /\ reqs[r].pc = "answered"
            /\ reqs[r].response.status = 200
            /\ reqs[r].response.success
            /\ reqs[r].response.extractedText = reqs[r].text
            /\ reqs[r].response.analysis.kind = "object"
            /\ reqs[r].response.analysis.keys = AnalysisKeys
            /\ reqs[r].response.analysis.nulls = AnalysisKeys

\* a request whose LLM answer was prose has been answered with the text
ProseAnswered ==
    \E r \in Requests :
        /\ reqs[r].pc = "answered"
        /\ reqs[r].llm = "prose"
        /\ reqs[r].text = "receipt"
        /\ reqs[r].response.success
        /\ reqs[r].response.extractedText = "receipt"
        /\ reqs[r].response.analysis = AllNull

\* C15: the analysis of every success response is an object with the five
\* fields referenceId, date, time, beneficiaryName and amount, each a value
\* or null, whatever the LLM returned.
AnalysisHasFiveFields ==
    \A r \in Requests :
        (reqs[r].response.status = 200 /\ reqs[r].response.success) =>
            /\ reqs[r].response.analysis.kind = "object"
            /\ reqs[r].response.analysis.keys = AnalysisKeys

\* C16: once a request whose file was stored has been answered the file is
\* gone from uploads/, and the file is there for as long as the extraction
\* reads it.
UploadRemovedAfterUse ==
    \A r \in Requests :
        /\ reqs[r].pc = "answered" => r \notin files
        /\ reqs[r].ocr = "reading" => r \in files

\* C17: processFile's call has a fixed timeout: a call that has waited the
\* whole timeout is no longer waiting (it was abandoned and reported and
\* loading was cleared); MaxWait ticks stand for the timeout.
CallAbandonedAtTimeout ==
    \A r \in Requests :
        reqs[r].waited >= MaxWait =>
            /\ reqs[r].client # "waiting"
            /\ ~reqs[r].loading

\* C30: every POST /extract-text request that reaches the handler receives
\* exactly one response, in every interleaving of the extraction's end, the
\* 30 second timer, the LLM outcome and the file cleanup: never a second
\* response, and none left without a response once the handler has ended, a
\* failing file deletion included.
ExactlyOneResponse ==
    \A r \in Requests :
        /\ reqs[r].responses <= 1
        /\ reqs[r].pc \in {"answered", "unanswered"} => reqs[r].responses = 1

====
